---- MODULE Spec2Model ----
(***************************************************************************)
(* Model of the UNO TCP session server (src/server.py): the acceptor, the  *)
(* per-connection handler threads with their one-slot mailboxes, and the   *)
(* turn loop of main().  The game engine (uno.py) is an external           *)
(* collaborator; it is modelled from its contract.                         *)
(***************************************************************************)
EXTENDS Integers, Sequences, FiniteSets, TLC

\* ------------------------------------------------------------------ bounds
MaxConns == 2          \* connections that ever arrive in a session
MaxSends == 2          \* frames the clients send in a session, all together
MaxPolls == 1          \* empty polls of the mailbox before the turn times out
MaxHand  == 2          \* cards a hand can hold (the deck is finite)
TimeoutTicks == 2     \* ACCEPT_TIMEOUT (server.py:28), in clock ticks

\* ------------------------------------------------------ program constants
MIN_PLAYERS == 2
MAX_PLAYERS == 6

Conns  == 1..MaxConns
Absent == "absent"     \* Python None / a key that dict.get does not find
\* an optional integer: None, or Some(i)
None    == <<>>
Some(i) == <<i>>

\* ---------------------------------------------------------------- messages
\* A decoded JSON value.  kind "obj" is a dict, "list" a non-empty list,
\* "badjson" stands for a line json.loads rejects.
Obj(t, a, ci) == [kind |-> "obj", type |-> t, action |-> a, card_index |-> ci]
DrawMsg    == Obj("action", "draw", None)
PlayMsg(i) == Obj("action", "play", Some(i))
PlayNoIdx  == Obj("action", "play", None)
UnkMsg     == Obj("chat", Absent, None)
EmptyObj   == Obj(Absent, Absent, None)
ListMsg    == [kind |-> "list", type |-> Absent, action |-> Absent, card_index |-> None]
BadLine    == [kind |-> "badjson", type |-> Absent, action |-> Absent, card_index |-> None]
\* the tail of a frame whose head was read, after the newline of the frame
\* before it, by an earlier recv_json call and dropped with `rest`
Fragment   == [kind |-> "fragment", type |-> Absent, action |-> Absent, card_index |-> None]
NoMsg      == [kind |-> "none", type |-> Absent, action |-> Absent, card_index |-> None]

\* what a client may put on the wire
ClientFrames == {DrawMsg, PlayMsg(0), PlayNoIdx, UnkMsg, EmptyObj, ListMsg, BadLine}

\* Python truth value of a decoded message (server.py:173 `if msg:`)
Truthy(m) == \/ m.kind = "list"
             \/ m.kind = "obj" /\ m # EmptyObj

\* json.loads of one line (server.py:47): raises on a malformed line
DecodeRaises(line) == line.kind \in {"badjson", "fragment"}

\* ------------------------------------------------------------- sequences
RemoveAt(s, i) == SubSeq(s, 1, i - 1) \o SubSeq(s, i + 1, Len(s))
Range(s) == {s[i] : i \in 1..Len(s)}
IndexOf(s, x) == CHOOSE i \in 1..Len(s) : s[i] = x /\ \A j \in 1..(i - 1) : s[j] # x
\* list.remove(x): removes the first occurrence
ListRemove(s, x) == IF x \in Range(s) THEN RemoveAt(s, IndexOf(s, x)) ELSE s


\* ------------------------------------------------------------ game engine
\* uno.py is not part of the sources; the engine is modelled from its
\* contract: play(seat, Some(card index) or None, new colour or Absent),
\* can_play / playable, current_player, current_card, is_active.
\* Seat i's hand is hands[i + 1].  Cards: "r", "b" coloured, "w" wild.
Cards == {"r", "b", "w"}
Deck  == {"r"}                           \* what a draw can bring
Deals == {<<"b", "r">>, <<"w">>}         \* hands a seat can be dealt
NoGame == [hands |-> <<>>, card |-> "none", cur |-> 0, active |-> FALSE, made |-> FALSE]

NewGames(n) ==
    {[hands |-> h, card |-> "r", cur |-> 0, active |-> TRUE, made |-> TRUE] :
        h \in [1..n -> Deals]}

Playable(current, card) == card = "w" \/ card = current
CanPlay(hand, current) == \E i \in 1..Len(hand) : Playable(current, hand[i])
NextSeat(g) == (g.cur + 1) % Len(g.hands)

\* Outcomes of game.play: a set of [ok, g]; ok = FALSE is a raised error,
\* which leaves the engine as it was.
Rejected(g) == [ok |-> FALSE, g |-> g]
EngineDraw(g, seat) ==
    LET h == g.hands[seat + 1]
        hs == IF Len(h) < MaxHand THEN {Append(h, c) : c \in Deck} ELSE {h}
    IN {[ok |-> TRUE,
         g |-> [g EXCEPT !.hands[seat + 1] = nh, !.cur = NextSeat(g)]] : nh \in hs}
EnginePlayCard(g, seat, ci, color) ==
    LET h == g.hands[seat + 1]
        card == h[ci[1] + 1]
        nh == RemoveAt(h, ci[1] + 1)
        done == [ok |-> TRUE,
                 g |-> [g EXCEPT !.hands[seat + 1] = nh,
                                 !.card = IF card = "w" THEN g.card ELSE card,
                                 !.cur = IF nh = <<>> THEN g.cur ELSE NextSeat(g),
                                 !.active = nh # <<>>]]
    IN IF ~Playable(g.card, card) THEN {Rejected(g)}
       ELSE IF card = "w" /\ color = Absent THEN {Rejected(g), done}
       ELSE {done}
EnginePlay(g, seat, ci, color) ==
    IF ~g.active \/ seat # g.cur THEN {Rejected(g)}
    ELSE IF ci = None THEN EngineDraw(g, seat)
    ELSE IF ci[1] \notin 0..(Len(g.hands[seat + 1]) - 1) THEN {Rejected(g)}
    ELSE EnginePlayCard(g, seat, ci, color)

\* ------------------------------------------------------------- snapshots
\* snapshot_game(game, player_index): hand counts for every seat, and the
\* hand of players[player_index] when an index is given (pi = None: none)
snapshot_game(g, pi) ==
    [players |-> [i \in 1..Len(g.hands) |-> Len(g.hands[i])],
     current_card |-> g.card,
     current_player_index |-> g.cur,
     is_active |-> g.active,
     has_hand |-> pi # None,
     your_hand |-> IF pi # None THEN g.hands[pi[1] + 1] ELSE <<>>]
NoState == [players |-> <<>>, current_card |-> "none", current_player_index |-> 0,
            is_active |-> FALSE, has_hand |-> FALSE, your_hand |-> <<>>]

\* ----------------------------------------------------------- the turn loop
\* server.py:153  `if current_idx >= len(clients)`: the seat has no client
NoClientFor(idx, cl) == idx >= Len(cl)
\* server.py:165  `conn = clients[current_idx]`
ConnFor(idx, cl) == cl[idx + 1]
\* server.py:127  `if n < MIN_PLAYERS: return`
EnoughPlayersOne(n) == n >= 1
EnoughPlayers(n) == n >= MIN_PLAYERS
\* server.py:91  `idx = len(clients)-1`, after the append
SeatIndex(cl) == Len(cl) - 1

\* server.py:198  `except Exception as e`: where main goes when the dispatch
\* of a client's action raises
AfterRejectUncaught == "crashed"
AfterReject == "err"

\* server.py:185-197: the engine calls an action leads to, as the sequence
\* of card arguments; raises when action.get itself fails (not a dict)
DispatchFallThrough(a) ==
    IF a.kind # "obj" THEN [raises |-> TRUE, args |-> <<>>]
    ELSE IF a.type = "action" /\ a.action = "play"
         THEN [raises |-> FALSE, args |-> <<a.card_index, None>>]
    ELSE IF a.type = "action" /\ a.action = "draw"
         THEN [raises |-> FALSE, args |-> <<None>>]
    ELSE [raises |-> FALSE, args |-> <<>>]
Dispatch(a) ==
    IF a.kind # "obj" THEN [raises |-> TRUE, args |-> <<>>]
    ELSE IF a.type = "action" /\ a.action = "play"
         THEN [raises |-> FALSE, args |-> <<a.card_index>>]
    ELSE IF a.type = "action" /\ a.action = "draw"
         THEN [raises |-> FALSE, args |-> <<None>>]
    ELSE [raises |-> FALSE, args |-> <<>>]

\* server.py:156-163: first playable card in hand order, else a draw
FirstCard(hand, current) == 1
FirstPlayable(hand, current) ==
    CHOOSE i \in 1..Len(hand) :
        /\ Playable(current, hand[i])
        /\ \A j \in 1..(i - 1) : ~Playable(current, hand[j])
AIMoves(hand, current) ==
    IF CanPlay(hand, current) THEN <<Some(FirstPlayable(hand, current) - 1)>>
    ELSE <<None>>

\* server.py:160: new_color=(None if card.color!='black' else None)
AINewColor(card) == IF card # "w" THEN Absent ELSE Absent

\* the calls of one branch, in order; a raised error ends the branch
RECURSIVE RunCalls(_, _, _, _)
RunCalls(g, seat, args, color) ==
    IF args = <<>> THEN {[ok |-> TRUE, g |-> g, n |-> 0, last |-> None]}
    ELSE UNION {
        IF r.ok /\ Len(args) > 1
        THEN {[t EXCEPT !.n = t.n + 1] : t \in RunCalls(r.g, seat, Tail(args), color)}
        ELSE {[ok |-> r.ok, g |-> r.g, n |-> 1, last |-> Head(args)]}
        : r \in EnginePlay(g, seat, Head(args), color)}

VARIABLES
    pc,          \* position of main()
    clients,     \* the global list `clients`
    accepted,    \* number of connections accepted so far
    widx,        \* player_index each handler was started with (-1: none)
    hpc,         \* position of each handler thread
    peer,        \* "up" / "down": the remote end of each connection
    wire,        \* frames sent by the client and not yet read by recv
    mailbox,     \* client_locks[conn]["msg"]
    sends,       \* frames sent so far (bounded by MaxSends)
    game,        \* the UnoGame instance
    bi,          \* position of the enumerate(clients) loop of line 143
    current_idx, \* main's current_idx
    conn,        \* main's conn (0: not set)
    waited,      \* empty polls of this turn
    action,      \* main's action
    out,         \* history: the last message main sent
    calls,       \* history: game.play calls of this iteration
    lastCall,    \* history: seat and card argument of the last game.play
    rej,         \* history: an engine rejection of a client's action
    msg,         \* main's msg, between the read and the clear of lines 170-171
    pend,        \* history: the seat's connection and its mailbox at the prompt
    elapsed,     \* ticks since accept_clients started
    idle         \* ticks the current accept() call has been blocked

vars == <<pc, clients, accepted, widx, hpc, peer, wire, mailbox, sends, game, bi,
          current_idx, conn, waited, action, out, calls, lastCall, rej,
          msg, pend, elapsed, idle>>

mainVars == <<pc, game, bi, current_idx, conn, waited, action, out, calls, lastCall,
              rej, msg, pend, elapsed, idle>>
netVars  == <<peer, wire, sends>>

NoOut  == [type |-> "none", to |-> 0, seat |-> -1, state |-> NoState]
NoCall == [seat |-> -1, ci |-> None, color |-> Absent]
NoRej  == "no"
NoPend == [c |-> 0, m |-> NoMsg]

Init ==
    /\ pc = "accept"
    /\ clients = <<>>
    /\ accepted = 0
    /\ widx = [c \in Conns |-> -1]
    /\ hpc = [c \in Conns |-> "none"]
    /\ peer = [c \in Conns |-> "up"]
    /\ wire = [c \in Conns |-> <<>>]
    /\ mailbox = [c \in Conns |-> NoMsg]
    /\ sends = 0
    /\ game = NoGame
    /\ bi = 0
    /\ current_idx = 0
    /\ conn = 0
    /\ waited = 0
    /\ action = NoMsg
    /\ out = NoOut
    /\ calls = 0
    /\ lastCall = NoCall
    /\ rej = NoRej
    /\ msg = NoMsg
    /\ pend = NoPend
    /\ elapsed = 0
    /\ idle = 0

\* send_json(c, ...): the outcomes sendall can have.  A socket the handler
\* has closed always raises; one whose peer is gone may raise.
SendOutcomes(c) ==
    {ok \in BOOLEAN : IF ok THEN hpc[c] # "done" ELSE hpc[c] = "done" \/ peer[c] = "down"}

\* ------------------------------------------------------------- the clients
ClientSend(c, f) ==
    /\ hpc[c] # "none" /\ peer[c] = "up" /\ sends < MaxSends
    /\ wire' = [wire EXCEPT ![c] = Append(@, f)]
    /\ sends' = sends + 1
    /\ UNCHANGED <<mainVars, clients, accepted, widx, hpc, peer, mailbox>>

ClientClose(c) ==
    /\ hpc[c] # "none" /\ peer[c] = "up"
    /\ peer' = [peer EXCEPT ![c] = "down"]
    /\ UNCHANGED <<mainVars, clients, accepted, widx, hpc, wire, sends, mailbox>>

\* ------------------------------------------------------------ handle_client
\* the finally clause (server.py:77-80)
HandlerClose(c) ==
    /\ hpc' = [hpc EXCEPT ![c] = "done"]
    /\ clients' = ListRemove(clients, c)

\* server.py:71 `with client_locks[conn]["lock"]`: main holds the lock of the
\* connection it polls from its read of the mailbox to its clear
CanAcquireAlways(c) == TRUE
CanAcquire(c) == ~(pc = "clear" /\ conn = c)

\* server.py:66-72 with recv_json (38-47): one call of recv_json returns the
\* first line of what it read; the k - 1 frames after it in the same read
\* are in the local `rest`, which is dropped; the read may also end inside
\* the frame after those (part), whose tail then stays on the socket
HandlerRecv(c) ==
    /\ hpc[c] = "loop" /\ wire[c] # <<>>
    /\ \E k \in 1..Len(wire[c]), part \in BOOLEAN :
         LET line == Head(wire[c]) IN
         /\ part => k < Len(wire[c])
         /\ wire' = [wire EXCEPT ![c] = IF part THEN <<Fragment>> \o SubSeq(@, k + 2, Len(@))
                                        ELSE SubSeq(@, k + 1, Len(@))]
         /\ IF DecodeRaises(line)
            THEN HandlerClose(c) /\ UNCHANGED mailbox
            ELSE /\ CanAcquire(c)
                 /\ mailbox' = [mailbox EXCEPT ![c] = line]
                 /\ UNCHANGED <<hpc, clients>>
    /\ UNCHANGED <<mainVars, peer, sends, accepted, widx>>

\* server.py:42-43, 67-69: a zero-byte read
HandlerEOF(c) ==
    /\ hpc[c] = "loop" /\ wire[c] = <<>> /\ peer[c] = "down"
    /\ HandlerClose(c)
    /\ UNCHANGED <<mainVars, netVars, accepted, widx, mailbox>>

\* ----------------------------------------------------------- accept_clients
handlerVars == <<hpc, widx>>

\* server.py:87-95, and the welcome the new handler thread sends first
\* (server.py:63) with the index it was started with
Accept ==
    /\ pc = "accept" /\ accepted < MaxConns
    /\ LET c == accepted + 1
           cl == Append(clients, c)
       IN /\ accepted' = c
          /\ clients' = cl
          /\ widx' = [widx EXCEPT ![c] = SeatIndex(cl)]
          /\ hpc' = [hpc EXCEPT ![c] = "loop"]
          /\ IF Len(cl) >= MAX_PLAYERS
             THEN pc' = "check"
             ELSE pc' = "accept"
          /\ idle' = 0
          /\ elapsed' = IF Len(cl) >= MAX_PLAYERS THEN 0 ELSE elapsed
    /\ UNCHANGED <<netVars, mailbox, game, bi, current_idx, conn, waited, action,
                   out, calls, lastCall, rej>>
    /\ UNCHANGED <<msg, pend>>

\* server.py:83, 86: time passes while accept() blocks; the timeout set by
\* settimeout applies to each accept() call
Tick ==
    /\ pc = "accept" /\ idle < TimeoutTicks
    /\ idle' = idle + 1
    /\ elapsed' = elapsed + 1
    /\ UNCHANGED <<netVars, mailbox, clients, accepted, handlerVars, game, bi, pc,
                   current_idx, conn, waited, action, out, calls, lastCall, rej>>
    /\ UNCHANGED <<msg, pend>>

\* server.py:96-98: no connection arrived within the socket timeout
AcceptTimeout ==
    /\ pc = "accept" /\ idle = TimeoutTicks
    /\ pc' = "check"
    /\ idle' = 0 /\ elapsed' = 0
    /\ UNCHANGED <<netVars, mailbox, clients, accepted, handlerVars, game, bi,
                   current_idx, conn, waited, action, out, calls, lastCall, rej>>
    /\ UNCHANGED <<msg, pend>>

\* ---------------------------------------------------------------------- main
\* server.py:126-129
NotEnough ==
    /\ pc = "check" /\ ~EnoughPlayers(Len(clients))
    /\ pc' = "nostart"
    /\ UNCHANGED <<netVars, mailbox, clients, accepted, handlerVars, game, bi,
                   current_idx, conn, waited, action, out, calls, lastCall, rej>>
    /\ UNCHANGED <<msg, pend, elapsed, idle>>

\* server.py:131-137 (the "Game starting" notices ignore send failures)
StartGame ==
    /\ pc = "check" /\ EnoughPlayers(Len(clients))
    /\ game' \in NewGames(Len(clients))
    /\ pc' = "top"
    /\ UNCHANGED <<netVars, mailbox, clients, accepted, handlerVars, bi,
                   current_idx, conn, waited, action, out, calls, lastCall, rej>>
    /\ UNCHANGED <<msg, pend, elapsed, idle>>

\* server.py:140
LoopTop ==
    /\ pc = "top"
    /\ IF game.active
       THEN pc' = "state" /\ bi' = 0 /\ calls' = 0 /\ lastCall' = NoCall
       ELSE pc' = "final" /\ UNCHANGED <<bi, calls, lastCall>>
    /\ UNCHANGED <<netVars, mailbox, clients, accepted, handlerVars, game,
                   current_idx, conn, waited, action, out, rej>>
    /\ UNCHANGED <<msg, pend, elapsed, idle>>

\* server.py:143-148: one step of `for i, conn in enumerate(clients)`
SendState ==
    /\ pc = "state" /\ bi < Len(clients)
    /\ LET c == clients[bi + 1] IN
       \E ok \in SendOutcomes(c) :
         out' = IF ok THEN [type |-> "state", to |-> c, seat |-> -1,
                            state |-> snapshot_game(game, Some(bi))]
                ELSE out
    /\ bi' = bi + 1
    /\ UNCHANGED <<netVars, mailbox, clients, accepted, handlerVars, game, pc,
                   current_idx, conn, waited, action, calls, lastCall, rej>>
    /\ UNCHANGED <<msg, pend, elapsed, idle>>

StateDone ==
    /\ pc = "state" /\ bi >= Len(clients)
    /\ pc' = "prompt"
    /\ UNCHANGED <<netVars, mailbox, clients, accepted, handlerVars, game, bi,
                   current_idx, conn, waited, action, out, calls, lastCall, rej>>
    /\ UNCHANGED <<msg, pend, elapsed, idle>>

\* broadcast (server.py:49-59): the connections whose send raised are removed
RECURSIVE RemoveAll(_, _)
RemoveAll(cl, S) ==
    IF cl = <<>> THEN <<>>
    ELSE IF Head(cl) \in S THEN RemoveAll(Tail(cl), S)
    ELSE <<Head(cl)>> \o RemoveAll(Tail(cl), S)
BroadcastOutcomes(cl) ==
    {RemoveAll(cl, F) : F \in SUBSET {c \in Range(cl) : FALSE \in SendOutcomes(c)}}

\* server.py:150-153
Prompt ==
    /\ pc = "prompt"
    /\ current_idx' = game.cur
    /\ clients' \in BroadcastOutcomes(clients)
    /\ out' = [type |-> "prompt", to |-> 0, seat |-> game.cur, state |-> NoState]
    /\ pc' = IF NoClientFor(game.cur, clients') THEN "ai" ELSE "get"
    /\ UNCHANGED <<netVars, mailbox, accepted, handlerVars, game, bi,
                   conn, waited, action, calls, lastCall, rej>>
    /\ pend' = IF NoClientFor(game.cur, clients') THEN NoPend
               ELSE [c |-> ConnFor(game.cur, clients'),
                     m |-> mailbox[ConnFor(game.cur, clients')]]
    /\ UNCHANGED <<msg, elapsed, idle>>

\* server.py:156-164: the seat has no client; an error of game.play is not caught
AIFallback ==
    /\ pc = "ai"
    /\ LET hand == game.hands[game.cur + 1]
           color == IF CanPlay(hand, game.card)
                    THEN AINewColor(hand[FirstPlayable(hand, game.card)])
                    ELSE Absent
       IN \E r \in RunCalls(game, game.cur, AIMoves(hand, game.card), color) :
         /\ game' = r.g
         /\ calls' = calls + r.n
         /\ lastCall' = [seat |-> game.cur, ci |-> r.last, color |-> color]
         /\ pc' = IF r.ok THEN "top" ELSE "crashed"
    /\ rej' = NoRej
    /\ UNCHANGED <<netVars, mailbox, clients, accepted, handlerVars, bi,
                   current_idx, conn, waited, action, out>>
    /\ UNCHANGED <<msg, pend, elapsed, idle>>

\* server.py:165-168: main starts its wait without touching the mailbox
WaitStartFlushed(mb, c) == [mb EXCEPT ![c] = NoMsg]
WaitStart(mb, c) == mb

\* server.py:165-168
GetConn ==
    /\ pc = "get"
    /\ IF current_idx >= Len(clients)
       THEN pc' = "crashed" /\ UNCHANGED <<conn, waited, action, mailbox>>
       ELSE /\ conn' = ConnFor(current_idx, clients)
            /\ waited' = 0
            /\ action' = NoMsg
            /\ mailbox' = WaitStart(mailbox, ConnFor(current_idx, clients))
            /\ pc' = "wait"
    /\ rej' = NoRej
    /\ UNCHANGED <<netVars, clients, accepted, handlerVars, game, bi,
                   current_idx, out, calls, lastCall>>
    /\ UNCHANGED <<msg, pend, elapsed, idle>>

\* server.py:169-170: main takes the connection's lock and reads the mailbox
PollRead ==
    /\ pc = "wait"
    /\ msg' = mailbox[conn]
    /\ pc' = "clear"
    /\ UNCHANGED <<netVars, mailbox, clients, accepted, handlerVars, game, bi,
                   current_idx, conn, waited, action, out, calls, lastCall, rej>>
    /\ UNCHANGED <<pend, elapsed, idle>>

\* server.py:171-177: the clear, still under the lock, and the test of msg
PollClear ==
    /\ pc = "clear"
    /\ mailbox' = [mailbox EXCEPT ![conn] = NoMsg]
    /\ IF Truthy(msg)
       THEN action' = msg /\ pc' = "apply" /\ UNCHANGED <<waited, pend>>
       ELSE /\ waited' = waited + 1
            /\ pc' = IF waited + 1 >= MaxPolls THEN "timeout" ELSE "wait"
            /\ pend' = NoPend
            /\ UNCHANGED action
    /\ msg' = NoMsg
    /\ UNCHANGED <<netVars, clients, accepted, handlerVars, game, bi,
                   current_idx, conn, out, calls, lastCall, rej>>
    /\ UNCHANGED <<elapsed, idle>>

\* server.py:181
TimeoutNotice ==
    /\ pc = "timeout"
    /\ \E ok \in SendOutcomes(conn) :
         IF ok THEN /\ out' = [type |-> "info", to |-> conn, seat |-> -1, state |-> NoState]
                    /\ pc' = "tdraw"
         ELSE pc' = "crashed" /\ UNCHANGED out
    /\ UNCHANGED <<netVars, mailbox, clients, accepted, handlerVars, game, bi,
                   current_idx, conn, waited, action, calls, lastCall, rej>>
    /\ UNCHANGED <<msg, pend, elapsed, idle>>

\* server.py:182
TimeoutDraw ==
    /\ pc = "tdraw"
    /\ \E r \in RunCalls(game, current_idx, <<None>>, Absent) :
         /\ game' = r.g
         /\ calls' = calls + r.n
         /\ lastCall' = [seat |-> current_idx, ci |-> r.last, color |-> Absent]
         /\ pc' = IF r.ok THEN "top" ELSE "crashed"
    /\ rej' = NoRej
    /\ UNCHANGED <<netVars, mailbox, clients, accepted, handlerVars, bi,
                   current_idx, conn, waited, action, out>>
    /\ UNCHANGED <<msg, pend, elapsed, idle>>

\* server.py:184-198
Apply ==
    /\ pc = "apply"
    /\ LET d == Dispatch(action) IN
       IF d.raises
       THEN pc' = AfterReject /\ rej' = NoRej /\ UNCHANGED <<game, calls, lastCall>>
       ELSE \E r \in RunCalls(game, current_idx, d.args, Absent) :
              /\ game' = r.g
              /\ calls' = calls + r.n
              /\ lastCall' = IF r.n > 0 THEN [seat |-> current_idx, ci |-> r.last,
                                              color |-> Absent]
                             ELSE lastCall
              /\ pc' = IF r.ok THEN "top" ELSE AfterReject
              /\ rej' = IF r.ok THEN (IF r.n > 0 THEN NoRej ELSE rej)
                        ELSE "raised"
    /\ UNCHANGED <<netVars, mailbox, clients, accepted, handlerVars, bi,
                   current_idx, conn, waited, action, out>>
    /\ pend' = NoPend
    /\ UNCHANGED <<msg, elapsed, idle>>

\* server.py:199
ErrInfo ==
    /\ pc = "err"
    /\ \E ok \in SendOutcomes(conn) :
         IF ok THEN /\ out' = [type |-> "info", to |-> conn, seat |-> -1, state |-> NoState]
                    /\ pc' = "top"
                    /\ rej' = IF rej = "raised" THEN "reported" ELSE rej
         ELSE pc' = "crashed" /\ UNCHANGED <<out, rej>>
    /\ UNCHANGED <<netVars, mailbox, clients, accepted, handlerVars, game, bi,
                   current_idx, conn, waited, action, calls, lastCall>>
    /\ UNCHANGED <<msg, pend, elapsed, idle>>

\* server.py:201  `snapshot_game(game)`: the final snapshot names no recipient
FinalRecipientFirst == Some(0)
FinalRecipient == None

\* server.py:201
FinalState ==
    /\ pc = "final"
    /\ clients' \in BroadcastOutcomes(clients)
    /\ out' = [type |-> "state", to |-> 0, seat |-> -1, state |-> snapshot_game(game, FinalRecipient)]
    /\ pc' = "final2"
    /\ UNCHANGED <<netVars, mailbox, accepted, handlerVars, game, bi,
                   current_idx, conn, waited, action, calls, lastCall, rej>>
    /\ UNCHANGED <<msg, pend, elapsed, idle>>

\* server.py:202
FinalInfo ==
    /\ pc = "final2"
    /\ clients' \in BroadcastOutcomes(clients)
    /\ out' = [type |-> "info", to |-> 0, seat |-> -1, state |-> NoState]
    /\ pc' = "done"
    /\ UNCHANGED <<netVars, mailbox, accepted, handlerVars, game, bi,
                   current_idx, conn, waited, action, calls, lastCall, rej>>
    /\ UNCHANGED <<msg, pend, elapsed, idle>>

Next ==
    \/ Accept \/ Tick \/ AcceptTimeout \/ NotEnough \/ StartGame
    \/ LoopTop \/ SendState \/ StateDone \/ Prompt \/ AIFallback \/ GetConn \/ PollRead \/ PollClear
    \/ TimeoutNotice \/ TimeoutDraw \/ Apply \/ ErrInfo \/ FinalState \/ FinalInfo
    \/ \E c \in Conns : \/ ClientClose(c)
                        \/ HandlerRecv(c) \/ HandlerEOF(c)
                        \/ \E f \in ClientFrames : ClientSend(c, f)

Spec == Init /\ [][Next]_vars

\* ===================================================================== claims
Registered(c) == c \in Range(clients)
\* the connections that were welcomed with player_index i
WelcomedAs(i) == {c \in Conns : widx[c] = i}
Connected(c) == hpc[c] = "loop" /\ peer[c] = "up"
LoopLeft == pc \in {"final", "final2", "done", "crashed"}

\* C1: a `state` message sent to a connection carries in your_hand the hand
\* of the seat whose index the connection was welcomed with, and no other.
C1_StateCarriesOwnHand ==
    (out.type = "state" /\ out.to # 0) =>
        /\ out.state.has_hand
        /\ out.state.your_hand = game.hands[widx[out.to] + 1]

\* C2: an action applied for seat i was drained from the mailbox of the
\* connection that was welcomed with player_index i.
C2_ActionFromOwnSeat ==
    pc = "apply" => widx[conn] = current_idx

\* C3: main enters the timed wait for a turn only when the connection
\* welcomed with the current seat's index is registered.
C3_NoWaitWithoutOwnConn ==
    [][(pc = "get" /\ pc' = "wait") =>
          \E c \in WelcomedAs(current_idx) : c \in Range(clients')]_vars

\* C4: once the game has started, main leaves its loop only when the engine
\* reports is_active = false.
C4_LoopLeftOnlyWhenInactive ==
    LoopLeft => ~game.active

\* C5: when the turn times out, the timeout notice has been sent to the
\* connection of the active seat before the draw is applied for that seat.
C5_TimeoutNoticeToSeat ==
    pc = "tdraw" =>
        /\ out.type = "info" /\ out.to = conn
        /\ widx[conn] = current_idx

\* C6: at most one game.play call is made in an iteration, and it is made
\* for the seat the engine reported as current in that iteration.
C6_OnePlayPerIteration ==
    /\ calls <= 1
    /\ calls = 1 => lastCall.seat = current_idx
C6_Witness ==
    pc = "top" /\ calls = 1 /\ game.active /\ lastCall.seat = current_idx

\* C7: when the handler has read two action frames the client sent before
\* any drain, the mailbox holds the later one.
ActionFrames == {DrawMsg, PlayMsg(0)}
C7_LaterMessageWins ==
    [][\A c \in Conns :
         (/\ hpc[c] = "loop" /\ hpc'[c] = "loop"
          /\ Len(wire[c]) >= 2 /\ wire'[c] = <<>>
          /\ Range(wire[c]) \subseteq ActionFrames)
         => mailbox'[c] = wire[c][Len(wire[c])]]_vars

\* C8: reading a line that is not valid JSON leaves the connection open and
\* registered.
C8_BadLineKeepsConnection ==
    [][\A c \in Conns :
         (/\ hpc[c] = "loop" /\ wire[c] # <<>> /\ Head(wire[c]) = BadLine
          /\ Len(wire'[c]) < Len(wire[c]))
         => (hpc'[c] = "loop" /\ (Registered(c) => c \in Range(clients')))]_vars

\* C9: an engine rejection of a client's play is caught; when the sender is
\* still connected an info message goes to the connection the action was
\* drained from, no further game.play is made in the iteration, the engine
\* is left as it was, and the next prompt names the same seat.
C9_RejectedPlayReported ==
    /\ [](rej # "no" => /\ pc \in {"err", "top", "state", "prompt", "get", "ai", "crashed"}
                        /\ game.cur = current_idx
                        /\ (pc \in {"err", "top"} => calls = 1)
                        /\ (pc \in {"get", "ai"} => out.type = "prompt"))
    /\ [][(pc = "apply" /\ calls' > calls /\ game' = game) => pc' = "err"]_vars
    /\ [][(pc = "err" /\ rej = "raised" /\ pc' # "err") =>
            /\ Connected(conn) => pc' = "top"
            /\ pc' = "top" =>
                 /\ out' = [type |-> "info", to |-> conn, seat |-> -1, state |-> NoState]
                 /\ game' = game /\ calls' = calls]_vars
    /\ [][(rej = "reported" /\ pc = "prompt" /\ pc' # "prompt") =>
            (out'.type = "prompt" /\ out'.seat = current_idx)]_vars
C9_Witness ==
    rej = "reported" /\ pc = "get" /\ out.seat = current_idx /\ Connected(conn)

\* C10: with fewer than MIN_PLAYERS connections registered once accepting
\* has stopped, no engine is created and no state or prompt is ever sent.
C10_NoStartBelowMinimum ==
    /\ [][(pc = "check" /\ Len(clients) < MIN_PLAYERS) =>
            (pc' \in {"check", "nostart"} /\ ~game'.made)]_vars
    /\ [](pc = "nostart" => (~game.made /\ out.type = "none"))
C10_Witness ==
    pc = "nostart" /\ accepted >= 1 /\ Len(clients) < MIN_PLAYERS

C12_EveryFrameDecoded ==
    [][\A c \in Conns :
         (hpc[c] = "loop" /\ wire'[c] # wire[c] /\ Len(wire'[c]) <= Len(wire[c])
            /\ ~DecodeRaises(Head(wire[c])))
         => (mailbox'[c] = Head(wire[c]) /\ wire'[c] = Tail(wire[c]))]_vars

\* C13: the k-th accepted connection (from 0) is welcomed with
\* player_index k, so no two connections are welcomed with the same index.
C13_SequentialSeatIndex ==
    \A c \in Conns : hpc[c] # "none" => widx[c] = c - 1

\* C14: a message that is not a well-formed action never ends main's wait
\* for the active seat: what main goes on to apply is a play or a draw.
WellFormed(m) ==
    m.kind = "obj" /\ m.type = "action" /\ m.action \in {"play", "draw"}
C14_MalformedIsAbsent ==
    pc = "apply" => WellFormed(action)

\* C15: a play message without card_index leads to no game.play call.
C15_PlayWithoutIndexIgnored ==
    (action = PlayNoIdx /\ pc \in {"top", "err"}) => calls = 0

\* C16: the acceptor is still accepting only within ACCEPT_TIMEOUT of the
\* moment it started, whenever the connections arrived.
C16_OverallDeadline ==
    pc = "accept" => elapsed <= TimeoutTicks

\* C17: the lookup of the active seat's connection (line 165) succeeds
\* whenever the test of line 153 found the seat to have a connection.
C17_LookupNeverFails ==
    [][pc = "get" => pc' \in {"get", "wait"}]_vars

\* C18: main's read and clear of a mailbox are one atomic step for that
\* connection's handler: what the clear erases is the message the read
\* returned, and a returned message is returned once.
C18_AtomicReadAndClear ==
    /\ [](pc = "clear" => mailbox[conn] = msg)
    /\ [][(pc = "clear" /\ pc' # "clear") =>
            /\ mailbox'[conn] = NoMsg
            /\ Truthy(msg) => (pc' = "apply" /\ action' = msg)]_vars
C18_Witness ==
    /\ pc = "clear" /\ msg # NoMsg /\ hpc[conn] = "loop"
    /\ wire[conn] # <<>> /\ ~DecodeRaises(Head(wire[conn]))

\* C19: for a seat without a connection main makes exactly one game.play
\* call: the lowest-index playable card of the seat's hand with no new
\* color when the seat can play, a draw when it cannot.
C19_AIFirstPlayable ==
    [][(pc = "ai" /\ pc' # "ai") =>
         LET hand == game.hands[game.cur + 1]
             P == {i \in 1..Len(hand) : Playable(game.card, hand[i])}
         IN /\ calls' = calls + 1
            /\ lastCall'.seat = game.cur
            /\ lastCall'.color = Absent
            /\ IF CanPlay(hand, game.card)
               THEN \E i \in P : /\ \A j \in P : i <= j
                                 /\ lastCall'.ci = Some(i - 1)
               ELSE lastCall'.ci = None]_vars
C19_Witness ==
    /\ pc = "top" /\ calls = 1 /\ lastCall.ci = Some(1)
    /\ NoClientFor(lastCall.seat, clients)

\* C20: a message deposited while main is not waiting on the connection
\* stays in the mailbox across turns, is what the first drain of the next
\* wait on that connection returns, and is applied as that turn's action.
C20_EarlyMessageApplied ==
    /\ [][\A c \in Conns : mailbox'[c] # mailbox[c] =>
            \/ wire'[c] # wire[c] /\ mailbox'[c] # NoMsg
            \/ pc = "clear" /\ conn = c /\ mailbox'[c] = NoMsg]_vars
    /\ []((pend.m # NoMsg /\ (pc = "get" \/ (pc = "wait" /\ waited = 0 /\ conn = pend.c)))
            => mailbox[pend.c] # NoMsg)
    /\ [][(pc = "wait" /\ pc' = "clear") => msg' = mailbox[conn]]_vars
    /\ [][(pc = "clear" /\ pc' # "clear" /\ waited = 0 /\ Truthy(msg)) =>
            (pc' = "apply" /\ action' = msg /\ waited' = 0)]_vars
C20_Witness ==
    /\ pc = "apply" /\ waited = 0 /\ conn = pend.c
    /\ Truthy(pend.m) /\ action = pend.m /\ sends = 1
====
